---- MODULE Spec2Model ----
(***************************************************************************)
(* Model of backend/main.py: the /analyze_video handler (the comment       *)
(* analysis pipeline) and its helpers clean_text, label_sentiment,         *)
(* sarcasm_score and mark_needs_review.                                    *)
(*                                                                         *)
(* A string is a sequence of one-character strings.  A compound score is   *)
(* an integer number of ten-thousandths (VADER rounds to 4 decimals); a    *)
(* percentage and a sarcasm score are integer numbers of tenths.           *)
(***************************************************************************)
EXTENDS Integers, Sequences, FiniteSets, TLC

VARIABLES
    pc,               \* position of the handler: "request", "loop", "returned", "crashed"
    video_info,       \* result of get_video_info_safe (line 117)
    i,                \* enumerate index of the next item = items received so far
    requests,         \* next() calls made on the comment generator
    total, pos, neg, neu, sarcastic,
    words,            \* list of tokens (line 129)
    sample_comments,  \* sample buffer (line 130)
    offered,          \* items that entered the loop body (lines 139-175), in order
    raised,           \* exception escaping the handler, "none" when there is none
    response,         \* the value the handler returned
    source,           \* the external comment source: "unopened", "open", "ended",
                      \* "failed_call" (line 122 raised), "failed_pull" (next() raised)
    norm_x, norm_prev, norm_y, norm_n   \* clean_text applied norm_n times to norm_x

vars == <<pc, video_info, i, requests, total, pos, neg, neu, sarcastic, words,
          sample_comments, offered, raised, response, source,
          norm_x, norm_prev, norm_y, norm_n>>

runVars == <<pc, video_info, i, requests, total, pos, neg, neu, sarcastic, words,
             sample_comments, offered, raised, response, source>>

normVars == <<norm_x, norm_prev, norm_y, norm_n>>

(***************************************************************************)
(* Bounds of the model.                                                    *)
(***************************************************************************)
\* MAX_COMMENTS is 800 in the source (line 133); the model runs the same loop
\* with a small cap.
MAX_COMMENTS == 3

\* The sample buffer holds 20 entries in the source (line 165).
SampleLimit == 2

\* Longest string given to clean_text on its own.
MaxLen == 6

\* Largest total_comments for which the percentages are computed on their own.
MaxTotal == 50

\* Characters of the strings given to clean_text on its own.
Alphabet == {"h", "t", "p", "w", ".", " ", "A"}

(***************************************************************************)
(* Characters and strings.                                                 *)
(***************************************************************************)
UpperChars ==
    <<"A", "B", "C", "D", "E", "F", "G", "H", "I", "J", "K", "L", "M",
      "N", "O", "P", "Q", "R", "S", "T", "U", "V", "W", "X", "Y", "Z">>

LowerChars ==
    <<"a", "b", "c", "d", "e", "f", "g", "h", "i", "j", "k", "l", "m",
      "n", "o", "p", "q", "r", "s", "t", "u", "v", "w", "x", "y", "z">>

Digits == {"0", "1", "2", "3", "4", "5", "6", "7", "8", "9"}

\* \s of the regular expressions, and what str.strip() removes.
Whitespace == {" ", "\t", "\n"}

LowerSet == {LowerChars[k] : k \in 1..26}

\* str.lower() on one character.
LowerChar(c) ==
    IF \E k \in 1..26 : UpperChars[k] = c
    THEN LowerChars[CHOOSE k \in 1..26 : UpperChars[k] = c]
    ELSE c

\* str.lower() (line 20).
Lower(s) == [k \in 1..Len(s) |-> LowerChar(s[k])]

HasPrefix(s, p) == Len(s) >= Len(p) /\ SubSeq(s, 1, Len(p)) = p

\* Number of leading non-whitespace characters of s: what a greedy \S+ takes.
RECURSIVE NonSpaceRun(_)
NonSpaceRun(s) ==
    IF s = <<>> \/ Head(s) \in Whitespace THEN 0 ELSE 1 + NonSpaceRun(Tail(s))

\* Length of the match of http\S+|www\S+ anchored at the start of s, 0 for none.
UrlMatchLen(s) ==
    IF HasPrefix(s, <<"h", "t", "t", "p">>)
          /\ NonSpaceRun(SubSeq(s, 5, Len(s))) >= 1
    THEN 4 + NonSpaceRun(SubSeq(s, 5, Len(s)))
    ELSE IF HasPrefix(s, <<"w", "w", "w">>)
               /\ NonSpaceRun(SubSeq(s, 4, Len(s))) >= 1
         THEN 3 + NonSpaceRun(SubSeq(s, 4, Len(s)))
         ELSE 0

\* re.sub(r"http\S+|www\S+", "", text) (line 21): leftmost matches, left to right.
RECURSIVE RemoveUrls(_)
RemoveUrls(s) ==
    IF s = <<>> THEN <<>>
    ELSE IF UrlMatchLen(s) > 0
         THEN RemoveUrls(SubSeq(s, UrlMatchLen(s) + 1, Len(s)))
         ELSE <<Head(s)>> \o RemoveUrls(Tail(s))

KeptChar(c) == c \in LowerSet \cup Digits \cup Whitespace

\* re.sub(r"[^a-z0-9\s]", "", text) (line 22).
RemoveNonAlnum(s) == SelectSeq(s, KeptChar)

RECURSIVE DropLeadingSpace(_)
DropLeadingSpace(s) ==
    IF s # <<>> /\ Head(s) \in Whitespace THEN DropLeadingSpace(Tail(s)) ELSE s

\* re.sub(r"\s+", " ", text) (line 23).
RECURSIVE CollapseSpace(_)
CollapseSpace(s) ==
    IF s = <<>> THEN <<>>
    ELSE IF Head(s) \in Whitespace
         THEN <<" ">> \o CollapseSpace(DropLeadingSpace(s))
         ELSE <<Head(s)>> \o CollapseSpace(Tail(s))

RECURSIVE DropTrailingSpace(_)
DropTrailingSpace(s) ==
    IF s # <<>> /\ s[Len(s)] \in Whitespace
    THEN DropTrailingSpace(SubSeq(s, 1, Len(s) - 1))
    ELSE s

\* str.strip() (lines 23 and 140).
Strip(s) == DropTrailingSpace(DropLeadingSpace(s))

\* clean_text (lines 19-24).
clean_text(text) ==
    Strip(CollapseSpace(RemoveNonAlnum(RemoveUrls(Lower(text)))))

\* str.split() (line 163): the maximal runs of non-whitespace characters.
RECURSIVE Split(_)
Split(s) ==
    IF DropLeadingSpace(s) = <<>> THEN <<>>
    ELSE LET t == DropLeadingSpace(s)
             n == NonSpaceRun(t)
         IN  <<SubSeq(t, 1, n)>> \o Split(SubSeq(t, n + 1, Len(t)))

\* needle in haystack, for strings (line 36).
Contains(hay, needle) ==
    \E k \in 0..(Len(hay) - Len(needle)) :
        SubSeq(hay, k + 1, k + Len(needle)) = needle

\* All strings over Alphabet of length at most n.
RECURSIVE StringsUpTo(_)
StringsUpTo(n) ==
    IF n = 0 THEN {<<>>}
    ELSE LET shorter == StringsUpTo(n - 1)
         IN  shorter \cup {Append(s, c) : s \in {t \in shorter : Len(t) = n - 1},
                                          c \in Alphabet}

(***************************************************************************)
(* Helpers of the pipeline.                                                *)
(***************************************************************************)
SARCASM_CUES ==
    { <<"y", "e", "a", "h", " ", "r", "i", "g", "h", "t">>,
      <<"a", "s", " ", "i", "f">>,
      <<"t", "o", "t", "a", "l", "l", "y">>,
      <<"s", "u", "r", "e", " ", "b", "u", "d", "d", "y">>,
      <<"/", "s">>,
      <<"w", "h", "a", "t", " ", "a", " ", "j", "o", "k", "e">>,
      <<"g", "r", "e", "a", "t", " ", "j", "o", "b">>,
      <<"n", "i", "c", "e", " ", "j", "o", "b">>,
      <<"o", "f", " ", "c", "o", "u", "r", "s", "e">>,
      <<"s", "o", " ", "g", "o", "o", "d">>,
      <<"a", "m", "a", "z", "i", "n", "g", " ", "w", "o", "r", "k">>,
      <<"b", "e", "s", "t", " ", "e", "v", "e", "r">>,
      <<"l", "o", "v", "e", " ", "t", "h", "i", "s", " ", "s", "o", " ",
        "m", "u", "c", "h">> }

\* label_sentiment (lines 26-32); compound in ten-thousandths.
label_sentiment(compound) ==
    IF compound >= 500 THEN "Positive"
    ELSE IF compound <= -500 THEN "Negative"
    ELSE "Neutral"

\* sarcasm_score (lines 34-37), in tenths: min(hits / 2, 1.0).
sarcasm_score(text) ==
    LET t    == Lower(text)
        hits == Cardinality({cue \in SARCASM_CUES : Contains(t, cue)})
    IN  IF hits * 5 < 10 THEN hits * 5 ELSE 10

\* s_score > 0.5 (line 151).
IsSarcastic(s_score) == s_score > 5

\* mark_needs_review (lines 39-44); compound in ten-thousandths.
mark_needs_review(compound, is_sarcastic) ==
    IF is_sarcastic THEN TRUE
    ELSE IF -1000 < compound /\ compound < 1000 THEN TRUE
    ELSE FALSE

\* The percentage cut to one decimal instead of rounded.
TruncPct(count, tot) == (count * 1000) \div tot

\* round(count * 100 / total, 1) (lines 193-196), in tenths.  The quotient is
\* rounded to the nearest tenth; it lies exactly between two tenths only when
\* it is a multiple of 0.25, which a float holds exactly (total < 2000), and
\* Python then rounds to the even tenth.
RoundPct(count, tot) ==
    LET q == (count * 1000) \div tot
        r == (count * 1000) % tot
    IN  IF 2 * r < tot THEN q
        ELSE IF 2 * r > tot THEN q + 1
        ELSE IF q % 2 = 0 THEN q ELSE q + 1

\* Number of occurrences of w in the list ws.
CountOf(w, ws) == Cardinality({k \in 1..Len(ws) : ws[k] = w})

\* The positions at which a word of ws occurs for the first time: the keys of
\* Counter(words) (line 180), in insertion order.
FirstSeen(ws) == {k \in 1..Len(ws) : \A j \in 1..(k - 1) : ws[j] # ws[k]}

\* The key first seen at j is ranked before the key first seen at k, given the
\* count cnt of the word at each position: larger count first, equal counts in
\* insertion order.
RankedBefore(j, k, cnt) ==
    \/ cnt[j] > cnt[k]
    \/ cnt[j] = cnt[k] /\ j < k

\* Counter.most_common(n) (line 181).
RankWords(ws, n) ==
    LET keys  == FirstSeen(ws)
        cnt   == [k \in 1..Len(ws) |-> CountOf(ws[k], ws)]
        m     == IF Cardinality(keys) < n THEN Cardinality(keys) ELSE n
        at(r) == CHOOSE k \in keys :
                    Cardinality({j \in keys : RankedBefore(j, k, cnt)}) = r - 1
    IN  [r \in 1..m |-> [word |-> ws[at(r)], count |-> cnt[at(r)]]]

\* most_common(20) (line 181).
TOP_WORDS == 20

top_words_of(ws) == RankWords(ws, TOP_WORDS)

(***************************************************************************)
(* Inputs: video metadata, stream items, scorer results.                   *)
(***************************************************************************)
NONE == "None"

\* get_video_info_safe (lines 68-85) never raises: metadata or the placeholder.
PlaceholderInfo == [title |-> "Unknown title", channel |-> NONE]

\* video_info before line 117 has run.
UnsetInfo == [title |-> NONE, channel |-> NONE]

ResolvedInfo == [title |-> "Some title", channel |-> "Some channel"]

VideoInfos == {PlaceholderInfo, ResolvedInfo}

\* A stream item that is no record: c.get raises AttributeError on it.
MalformedItem == [is_record |-> FALSE, has_text |-> FALSE, text |-> <<>>, author |-> NONE]

NoTextItem == [is_record |-> TRUE, has_text |-> FALSE, text |-> <<>>, author |-> "ann"]

EmptyTextItem == [is_record |-> TRUE, has_text |-> TRUE, text |-> <<>>, author |-> NONE]

BlankTextItem ==
    [is_record |-> TRUE, has_text |-> TRUE, text |-> <<" ", "\t">>, author |-> "ann"]

\* "www.x !": not blank, but clean_text leaves nothing of it.
UrlOnlyItem ==
    [is_record |-> TRUE, has_text |-> TRUE,
     text |-> <<"w", "w", "w", ".", "x", " ", "!">>, author |-> "bob"]

\* "Ok ok"
OkItem ==
    [is_record |-> TRUE, has_text |-> TRUE,
     text |-> <<"O", "k", " ", "o", "k">>, author |-> NONE]

\* "Totally, as if!": two sarcasm cues once cleaned.
SarcasticItem ==
    [is_record |-> TRUE, has_text |-> TRUE,
     text |-> <<"T", "o", "t", "a", "l", "l", "y", ",", " ", "a", "s", " ", "i", "f", "!">>,
     author |-> "ann"]

RawItems ==
    {MalformedItem, NoTextItem, EmptyTextItem, BlankTextItem, UrlOnlyItem,
     OkItem, SarcasticItem}

\* Compound scores the scorer may return (ten-thousandths): Negative, Neutral
\* just under the threshold, Positive on the threshold.
Compounds == {-5000, 499, 500}

(***************************************************************************)
(* The pieces of analyze_video.                                            *)
(***************************************************************************)
EMPTY_URL == "Empty video_url"

FETCH_FAILED == "Failed to fetch comments. Check the URL or try again later."

NO_COMMENTS == "No comments found or video URL invalid."

\* line 114
EmptyUrlError == [kind |-> "error", error |-> EMPTY_URL]

\* line 125
FetchError(info) == [kind |-> "error", error |-> FETCH_FAILED, video_info |-> info]

\* line 178
NoCommentsError(info) == [kind |-> "error", error |-> NO_COMMENTS, video_info |-> info]

\* The cap test written with > instead of >=.
CapReachedOneLate(k) == k > MAX_COMMENTS

\* The cap test two items late.
CapReachedTwoLate(k) == k >= MAX_COMMENTS + 2

\* if i >= MAX_COMMENTS: break (line 136)
CapReached(k) == k >= MAX_COMMENTS

\* text = c.get("text") or "" (line 139)
TextOf(c) == IF c.has_text THEN c.text ELSE <<>>

\* not str(text).strip() (line 140)
IsBlank(text) == Strip(text) = <<>>

\* The loop without its second continue (lines 144-145).
NeverEmptyCleaned(cleaned) == FALSE

\* not cleaned (line 144)
IsEmptyCleaned(cleaned) == cleaned = <<>>

\* The else branch of line 158 taken for Negative labels too.
IncNeuUnlessPositive(label) == IF label = "Positive" THEN 0 ELSE 1

\* lines 154-159: which of the three counters a label increments
IncPos(label) == IF label = "Positive" THEN 1 ELSE 0

IncNeg(label) == IF label # "Positive" /\ label = "Negative" THEN 1 ELSE 0

IncNeu(label) == IF label # "Positive" /\ label # "Negative" THEN 1 ELSE 0

\* The buffer test written with <= instead of <.
SampleHasRoomInclusive(buf) == Len(buf) <= SampleLimit

\* len(sample_comments) < 20 (line 165)
SampleHasRoom(buf) == Len(buf) < SampleLimit

\* the dict appended at lines 166-175
SampleEntry(c, text, cleaned, compound) ==
    LET s_score == sarcasm_score(cleaned)
        is_sarc == IsSarcastic(s_score)
    IN  [original      |-> text,
         cleaned       |-> cleaned,
         author        |-> c.author,
         sentiment     |-> label_sentiment(compound),
         compound      |-> compound,
         sarcasm_score |-> s_score,
         is_sarcastic  |-> is_sarc,
         needs_review  |-> mark_needs_review(compound, is_sarc)]

\* The no-comments test written as total <= 1.
NoCommentsUpToOne(t) == t <= 1

\* total == 0 (line 177)
NoComments(t) == t = 0

\* the report returned at lines 183-200
Report ==
    [kind            |-> "report",
     video_info      |-> video_info,
     totals          |-> [total_comments |-> total, positive |-> pos,
                          negative |-> neg, neutral |-> neu, sarcastic |-> sarcastic],
     percentages     |-> [positive_pct  |-> RoundPct(pos, total),
                          negative_pct  |-> RoundPct(neg, total),
                          neutral_pct   |-> RoundPct(neu, total),
                          sarcastic_pct |-> RoundPct(sarcastic, total)],
     top_words       |-> top_words_of(words),
     sample_comments |-> sample_comments]

\* lines 177-200: what the handler returns once the loop is left
Finish ==
    /\ pc' = "returned"
    /\ response' = IF NoComments(total) THEN NoCommentsError(video_info) ELSE Report
    /\ UNCHANGED <<video_info, i, total, pos, neg, neu, sarcastic, words,
                   sample_comments, offered, raised>>

(***************************************************************************)
(* The handler as a state machine.  A step runs the handler up to its next *)
(* call on the comment generator; the generator's answer is the input.     *)
(***************************************************************************)
InitRun ==
    /\ pc = "request"
    /\ video_info = UnsetInfo
    /\ i = 0
    /\ requests = 0
    /\ total = 0 /\ pos = 0 /\ neg = 0 /\ neu = 0 /\ sarcastic = 0
    /\ words = <<>>
    /\ sample_comments = <<>>
    /\ offered = <<>>
    /\ raised = "none"
    /\ response = [kind |-> "none"]
    /\ source = "unopened"

InitNorm ==
    /\ norm_x = <<>>
    /\ norm_prev = <<>>
    /\ norm_y = <<>>
    /\ norm_n = 0

Init == InitRun /\ InitNorm

\* lines 112-114: the URL is empty once stripped
EmptyUrl ==
    /\ pc = "request"
    /\ pc' = "returned"
    /\ response' = EmptyUrlError
    /\ UNCHANGED <<video_info, i, requests, total, pos, neg, neu, sarcastic, words,
                   sample_comments, offered, raised, source>>
    /\ UNCHANGED normVars

\* lines 116-125: get_comments_from_url raises, the handler reports it
StartFails ==
    /\ pc = "request"
    /\ \E info \in VideoInfos :
          /\ video_info' = info
          /\ response' = FetchError(info)
    /\ pc' = "returned"
    /\ source' = "failed_call"
    /\ UNCHANGED <<i, requests, total, pos, neg, neu, sarcastic, words,
                   sample_comments, offered, raised>>
    /\ UNCHANGED normVars

\* lines 116-133: metadata resolved, generator obtained, counters set up
Start ==
    /\ pc = "request"
    /\ \E info \in VideoInfos : video_info' = info
    /\ pc' = "loop"
    /\ source' = "open"
    /\ i' = 0
    /\ total' = 0 /\ pos' = 0 /\ neg' = 0 /\ neu' = 0 /\ sarcastic' = 0
    /\ words' = <<>>
    /\ sample_comments' = <<>>
    /\ UNCHANGED <<requests, offered, raised, response>>
    /\ UNCHANGED normVars

\* line 135: next() raises; nothing around the loop catches it
PullRaises ==
    /\ pc = "loop"
    /\ requests' = requests + 1
    /\ source' = "failed_pull"
    /\ raised' = "SourceError"
    /\ pc' = "crashed"
    /\ UNCHANGED <<video_info, i, total, pos, neg, neu, sarcastic, words,
                   sample_comments, offered, response>>
    /\ UNCHANGED normVars

\* line 135 then 177-200: the generator is exhausted
StreamEnd ==
    /\ pc = "loop"
    /\ requests' = requests + 1
    /\ source' = "ended"
    /\ Finish
    /\ UNCHANGED normVars

\* lines 135-137 then 177-200: an item arrives with i >= MAX_COMMENTS and is dropped
Break ==
    /\ pc = "loop"
    /\ CapReached(i)
    /\ RawItems # {}          \* whichever item arrives, it is dropped
    /\ requests' = requests + 1
    /\ source' = source
    /\ Finish
    /\ UNCHANGED normVars

\* lines 135-139: the item is no record, c.get raises AttributeError
IterMalformed ==
    /\ pc = "loop"
    /\ ~CapReached(i)
    /\ \E c \in RawItems :
          /\ ~c.is_record
          /\ offered' = Append(offered, c)
    /\ requests' = requests + 1
    /\ i' = i + 1
    /\ raised' = "AttributeError"
    /\ pc' = "crashed"
    /\ UNCHANGED <<video_info, total, pos, neg, neu, sarcastic, words,
                   sample_comments, response, source>>
    /\ UNCHANGED normVars

\* lines 135-145: the item is skipped by one of the two continue statements
IterSkip ==
    /\ pc = "loop"
    /\ ~CapReached(i)
    /\ \E c \in RawItems :
          /\ c.is_record
          /\ IsBlank(TextOf(c)) \/ IsEmptyCleaned(clean_text(TextOf(c)))
          /\ offered' = Append(offered, c)
    /\ requests' = requests + 1
    /\ i' = i + 1
    /\ UNCHANGED <<pc, video_info, total, pos, neg, neu, sarcastic, words,
                   sample_comments, raised, response, source>>
    /\ UNCHANGED normVars

\* lines 135-147: analyzer.polarity_scores raises on the cleaned text
IterScorerRaises ==
    /\ pc = "loop"
    /\ ~CapReached(i)
    /\ \E c \in RawItems :
          /\ c.is_record
          /\ ~IsBlank(TextOf(c))
          /\ ~IsEmptyCleaned(clean_text(TextOf(c)))
          /\ offered' = Append(offered, c)
    /\ requests' = requests + 1
    /\ i' = i + 1
    /\ raised' = "ScorerError"
    /\ pc' = "crashed"
    /\ UNCHANGED <<video_info, total, pos, neg, neu, sarcastic, words,
                   sample_comments, response, source>>
    /\ UNCHANGED normVars

\* lines 135-175: the item is scored and counted
IterCount ==
    /\ pc = "loop"
    /\ ~CapReached(i)
    /\ \E c \in RawItems, compound \in Compounds :
          LET text    == TextOf(c)
              cleaned == clean_text(text)
              label   == label_sentiment(compound)
              s_score == sarcasm_score(cleaned)
          IN  /\ c.is_record
              /\ ~IsBlank(text)
              /\ ~IsEmptyCleaned(cleaned)
              /\ offered' = Append(offered, c)
              /\ total' = total + 1
              /\ pos' = pos + IncPos(label)
              /\ neg' = neg + IncNeg(label)
              /\ neu' = neu + IncNeu(label)
              /\ sarcastic' = sarcastic + (IF IsSarcastic(s_score) THEN 1 ELSE 0)
              /\ words' = words \o Split(cleaned)
              /\ sample_comments' =
                    IF SampleHasRoom(sample_comments)
                    THEN Append(sample_comments, SampleEntry(c, text, cleaned, compound))
                    ELSE sample_comments
    /\ requests' = requests + 1
    /\ i' = i + 1
    /\ UNCHANGED <<pc, video_info, raised, response, source>>
    /\ UNCHANGED normVars

Next ==
    \/ EmptyUrl
    \/ StartFails
    \/ Start
    \/ PullRaises
    \/ StreamEnd
    \/ Break
    \/ IterMalformed
    \/ IterSkip
    \/ IterScorerRaises
    \/ IterCount

Spec == Init /\ [][Next]_vars

(***************************************************************************)
(* The handler on an infinite comment stream: the generator is obtained,   *)
(* every next() returns a comment record and the scorer returns a score.   *)
(* The handler runs synchronously to its return, hence the weak fairness.  *)
(***************************************************************************)
NextInfinite ==
    \/ Start
    \/ IterSkip
    \/ IterCount
    \/ Break

SpecInfinite == Init /\ [][NextInfinite]_vars /\ WF_vars(NextInfinite)

(***************************************************************************)
(* clean_text on its own: applied twice to every string over Alphabet of   *)
(* length at most MaxLen.                                                  *)
(***************************************************************************)
InitClean ==
    /\ InitRun
    /\ norm_x \in StringsUpTo(MaxLen)
    /\ norm_prev = norm_x
    /\ norm_y = norm_x
    /\ norm_n = 0

Normalize ==
    /\ norm_n < 2
    /\ norm_prev' = norm_y
    /\ norm_y' = clean_text(norm_y)
    /\ norm_n' = norm_n + 1
    /\ UNCHANGED norm_x
    /\ UNCHANGED runVars

SpecClean == InitClean /\ [][Normalize]_vars

(***************************************************************************)
(* The percentages on their own: the handler at the end of a stream of     *)
(* p + n + u counted comments (p Positive, n Negative, u Neutral), for     *)
(* every split with 1 <= p + n + u <= MaxTotal; the stream then ends.      *)
(***************************************************************************)
CompoundAt(k, p, n) == IF k <= p THEN 500 ELSE IF k <= p + n THEN -5000 ELSE 499

Min(a, b) == IF a < b THEN a ELSE b

InitPct ==
    /\ InitNorm
    /\ \E p \in 0..MaxTotal, n \in 0..MaxTotal, u \in 0..MaxTotal :
          /\ 1 <= p + n + u
          /\ p + n + u <= MaxTotal
          /\ pos = p /\ neg = n /\ neu = u
          /\ total = p + n + u
          /\ i = p + n + u
          /\ requests = p + n + u
          /\ offered = [k \in 1..(p + n + u) |-> OkItem]
          /\ sample_comments =
                [k \in 1..Min(SampleLimit, p + n + u) |->
                    SampleEntry(OkItem, TextOf(OkItem), clean_text(TextOf(OkItem)),
                                CompoundAt(k, p, n))]
          /\ words = [k \in 1..(2 * (p + n + u)) |-> <<"o", "k">>]
    /\ sarcastic = 0
    /\ pc = "loop"
    /\ video_info = ResolvedInfo
    /\ raised = "none"
    /\ response = [kind |-> "none"]
    /\ source = "open"

SpecPct == InitPct /\ [][StreamEnd]_vars

(***************************************************************************)
(* Properties.                                                             *)
(***************************************************************************)
\* A usable comment: a record whose text is non-empty and normalizes to a
\* non-empty string.
Usable(c) ==
    /\ c.is_record
    /\ c.has_text
    /\ Strip(c.text) # <<>>
    /\ clean_text(c.text) # <<>>

\* A comment the loop is to skip: text absent, empty or whitespace-only, or
\* text that normalizes to the empty string.
Skippable(c) ==
    /\ c.is_record
    /\ \/ ~c.has_text
       \/ Strip(c.text) = <<>>
       \/ clean_text(c.text) = <<>>

UsableOffered == SelectSeq(offered, Usable)

IsReport == pc = "returned" /\ response.kind = "report"

\* The three label counters add up to total, in the state and in the report.
C1_CountsInv ==
    /\ pos + neg + neu = total
    /\ IsReport =>
          /\ response.totals.total_comments = total
          /\ response.totals.positive + response.totals.negative
                + response.totals.neutral = response.totals.total_comments

\* A step adds one to total and to exactly one label counter, or to none.
C1_CountsStep ==
    /\ total' \in {total, total + 1}
    /\ pos' \in {pos, pos + 1} /\ neg' \in {neg, neg + 1} /\ neu' \in {neu, neu + 1}
    /\ (pos' - pos) + (neg' - neg) + (neu' - neu) = total' - total

\* C1: after every loop iteration, counted or skipped, and in the returned
\* totals, positive + negative + neutral = total_comments; a counted comment
\* adds one to total and one to exactly one of the three label counters.
C1_LabelCountsSumToTotal == [](C1_CountsInv) /\ [][C1_CountsStep]_vars

\* A report over a Positive and a Negative comment and a skipped item.
C1_Witness ==
    /\ IsReport
    /\ pos >= 1 /\ neg >= 1
    /\ \E k \in 1..Len(offered) : Skippable(offered[k])

\* C2: a per-comment anomaly (an item that is no record, or the scorer
\* raising on a comment) is skipped and never ends the run with an exception.
C2_PerItemAnomalyAbsorbed ==
    ~(pc = "crashed" /\ raised \in {"AttributeError", "ScorerError"})

\* C3: on an infinite comment stream the loop body runs on at most
\* MAX_COMMENTS offered items, skipped ones included, and the handler then
\* returns a report or the no-comments error.
C3_CapThenResult ==
    /\ [](Len(offered) <= MAX_COMMENTS /\ i <= MAX_COMMENTS)
    /\ <>(/\ pc = "returned"
          /\ Len(offered) = MAX_COMMENTS
          /\ response.kind = "report" \/ response = NoCommentsError(video_info))

\* The handler has returned after MAX_COMMENTS items, one of them skipped.
C3_Witness ==
    /\ pc = "returned"
    /\ Len(offered) = MAX_COMMENTS
    /\ requests = MAX_COMMENTS + 1
    /\ total >= 1
    /\ \E k \in 1..Len(offered) : Skippable(offered[k])

\* The sample entry e was built from the stream item c.
SampleOf(e, c) ==
    /\ e.original = c.text
    /\ e.author = c.author
    /\ e.cleaned = clean_text(c.text)
    /\ e.sentiment = label_sentiment(e.compound)

\* The buffer is the first min(SampleLimit, total) usable comments offered.
C4_SampleInv ==
    /\ Len(sample_comments) <= SampleLimit
    /\ Len(sample_comments) = Min(SampleLimit, total)
    /\ LET usable == UsableOffered
       IN  \A k \in 1..Len(sample_comments) : SampleOf(sample_comments[k], usable[k])
    /\ IsReport => response.sample_comments = sample_comments

\* A step only appends to the buffer, and changes nothing once it is full.
C4_SampleStep ==
    /\ Len(sample_comments') >= Len(sample_comments)
    /\ SubSeq(sample_comments', 1, Len(sample_comments)) = sample_comments
    /\ Len(sample_comments) = SampleLimit => sample_comments' = sample_comments

\* C4: the sample buffer never holds more than SampleLimit entries; it is, in
\* order, the first min(SampleLimit, total) usable comments of the stream, also
\* in the report; once full it never changes, and entries are only appended.
C4_SampleIsFirstUsable == [](C4_SampleInv) /\ [][C4_SampleStep]_vars

\* A report over more usable comments than the buffer holds.
C4_Witness ==
    /\ IsReport
    /\ total > SampleLimit
    /\ Len(response.sample_comments) = SampleLimit
    /\ response.sample_comments[1].original # response.sample_comments[2].original

\* C5: when the handler returns from the loop, it returns the no-comments
\* error, with the video metadata and nothing else, exactly when no usable
\* comment was offered within the cap, and a report otherwise.
C5_NoCommentsIffNoUsable ==
    (pc = "returned" /\ requests >= 1) =>
        IF Len(UsableOffered) = 0
        THEN /\ response = NoCommentsError(video_info)
             /\ DOMAIN response = {"kind", "error", "video_info"}
        ELSE /\ response.kind = "report"
             /\ response.video_info = video_info

\* The cap was reached on skipped items only, one of them with a text that
\* normalizes to the empty string, and the error was returned.
C5_Witness ==
    /\ pc = "returned"
    /\ Len(offered) = MAX_COMMENTS
    /\ Len(UsableOffered) = 0
    /\ \E k \in 1..Len(offered) : offered[k] = UrlOnlyItem
    /\ response = NoCommentsError(video_info)

\* C6: when the comment source fails, at the call that obtains the stream or
\* at the first pull from it, the handler returns the source-unavailable error
\* with the video metadata, and no item is processed.
C6_SourceFailureReported ==
    (source = "failed_call" \/ (source = "failed_pull" /\ i = 0)) =>
        /\ pc = "returned"
        /\ response = FetchError(video_info)
        /\ offered = <<>>
        /\ total = 0

Abs(x) == IF x < 0 THEN -x ELSE x

C8_CleanTextIdempotent == norm_n = 2 => norm_y = norm_prev

\* C9 as claimed: the handler makes at most MAX_COMMENTS requests to the stream.
C9_PullsAtMostCap == requests <= MAX_COMMENTS

\* C9 as amended: the loop body runs on at most MAX_COMMENTS items, the handler
\* makes at most MAX_COMMENTS + 1 requests to the stream, and none after that.
C9_PullsAtMostCapPlusOne ==
    /\ Len(offered) <= MAX_COMMENTS
    /\ i <= MAX_COMMENTS
    /\ requests <= MAX_COMMENTS + 1
    /\ requests = MAX_COMMENTS + 1 => pc # "loop"

\* MAX_COMMENTS items were processed and the stream failed on the next request:
\* the run ends with the stream's exception.
C9_Witness ==
    /\ pc = "crashed"
    /\ raised = "SourceError"
    /\ Len(offered) = MAX_COMMENTS
    /\ requests = MAX_COMMENTS + 1

\* A step that offers a skippable item changes only i (and the history).
C10_SkipStep ==
    (Len(offered') = Len(offered) + 1 /\ Skippable(offered'[Len(offered')])) =>
        /\ UNCHANGED <<total, pos, neg, neu, sarcastic, words, sample_comments>>
        /\ UNCHANGED <<pc, response, raised>>
        /\ i' = i + 1

\* C10: an iteration on an item whose text is absent, empty, whitespace-only or
\* normalizes to the empty string leaves total, positive, negative, neutral,
\* sarcastic, the word list and the sample buffer unchanged; only the count of
\* items offered advances.
C10_SkipChangesNothing == [][C10_SkipStep]_vars

\* A comment was counted, then an item whose text normalizes to the empty
\* string was skipped.
C10_Witness ==
    /\ pc = "loop"
    /\ Len(offered) = 2
    /\ Usable(offered[1])
    /\ offered[2] = UrlOnlyItem
    /\ total = 1
    /\ i = 2
    /\ Len(words) > 0
    /\ Len(sample_comments) = 1

====
